---- MODULE Spec2Model ----
(***************************************************************************)
(* State-machine model of the DataProcessor pipeline (src/dataproc1.py)    *)
(* and of the command-line driver that scripts it (src/processor.py).      *)
(*                                                                         *)
(* A Table is a sequence of rows; a row is a record with one cell per      *)
(* column.  A cell is a tagged record so that string cells, numeric cells  *)
(* and missing cells (pandas NaN) can live in one column and be compared.  *)
(***************************************************************************)
EXTENDS Integers, Sequences, FiniteSets, TLC

VARIABLES
    pc,              \* "new" | "ready" | "failed"  and the positions of main()
    filepath,        \* self.filepath
    data,            \* self.data: the current Table (sequence of rows)
    dtypes,          \* the column dtypes the loader inferred (self.data.dtypes)
    original_shape,  \* self.original_shape
    call,            \* the call that produced this state (name and arguments)
    repeated,        \* TRUE iff the previous call had the same name as `call`
    result,          \* what the call returned
    raised,          \* the exception that escaped the call ("none" if it returned)
    printed,         \* the messages the call printed, in order
    written,         \* the files the call wrote
    argv,            \* the command line still to be parsed
    args,            \* the argparse namespace
    trace            \* the operations main() has invoked, in order

vars == <<pc, filepath, data, dtypes, original_shape, call, repeated, result,
          raised, printed, written, argv, args, trace>>

(***************************************************************************)
(* Bounds of the model.                                                    *)
(***************************************************************************)
MaxRows == 3
MaxFlags == 3

(***************************************************************************)
(* Cells, rows, tables.                                                    *)
(***************************************************************************)
Str(s) == [t |-> "str", s |-> s, n |-> 0]
Num(n) == [t |-> "num", s |-> "", n |-> n]
NaN == [t |-> "nan", s |-> "", n |-> 0]

IsNull(cell) == cell.t = "nan"

Columns == <<"Region", "Sales">>
ColumnSet == {Columns[i] : i \in 1..Len(Columns)}

Row(r, s) == [Region |-> r, Sales |-> s]

\* The rows an input file may hold.
RowValues ==
    { Row(Str("A"), Num(600)), Row(Str("A"), Num(400)), Row(Str("B"), Num(900)),
      Row(Str("B"), NaN) }

Tables == UNION { [1..n -> RowValues] : n \in 0..MaxRows }

\* Lexicographic order of the strings that occur, as Python compares them.
Alphabet == <<"A", "B">>
StrOrd(s) == CHOOSE i \in 1..Len(Alphabet) : Alphabet[i] = s

\* DataFrame.shape
Shape(rows) == <<Len(rows), Len(Columns)>>

\* The dtype pandas infers for a column when it decodes a file.
InferDtype(rows, c) ==
    IF Len(rows) = 0 THEN "object"
    ELSE IF \E i \in 1..Len(rows) : rows[i][c].t = "str" THEN "object"
    ELSE IF \E i \in 1..Len(rows) : rows[i][c].t = "nan" THEN "float64"
    ELSE "int64"

InferDtypes(rows) == [c \in ColumnSet |-> InferDtype(rows, c)]

IsNumericDtype(d) == d \in {"int64", "float64"}

(***************************************************************************)
(* Messages, return values, outcomes of a call.                            *)
(***************************************************************************)
Msg(tag, who, arg, n, m) == [tag |-> tag, who |-> who, arg |-> arg, n |-> n, m |-> m]

None == [kind |-> "None"]
ReportValue(r) == [kind |-> "Report", val |-> r]
GroupedValue(g) == [kind |-> "Grouped", val |-> g]

\* The DataProcessor object as the methods see it.
Self == [filepath |-> filepath, data |-> data, dtypes |-> dtypes,
         original_shape |-> original_shape]

\* A call's outcome: the object's data afterwards, the files it wrote, the
\* value returned, the exception that escaped, and what was printed.
Outcome(d, w, res, exc, out) ==
    [data |-> d, written |-> w, result |-> res, raised |-> exc, printed |-> out]

Returns(self, res, out) == Outcome(self.data, {}, res, "none", out)

(***************************************************************************)
(* The decorators.  functools.wraps keeps func.__name__, so every message  *)
(* carries the name of the decorated method.                               *)
(***************************************************************************)
\* Variant of timer: the wrapped function has lost its name (an inner
\* decorator without functools.wraps), so the timing names the wrapper.
timer_unwrapped(name, o) ==
    IF o.raised = "none"
    THEN [o EXCEPT !.printed = @ \o <<Msg("took", "wrapper", "", 0, 0)>>]
    ELSE o

timer(name, o) ==
    IF o.raised = "none"
    THEN [o EXCEPT !.printed = @ \o <<Msg("took", name, "", 0, 0)>>]
    ELSE o

log_operation(name, o) ==
    IF o.raised = "none"
    THEN [o EXCEPT !.printed =
             <<Msg("starting", name, "", 0, 0)>> \o @ \o <<Msg("completed", name, "", 0, 0)>>]
    ELSE [o EXCEPT !.printed = <<Msg("starting", name, "", 0, 0)>> \o @]

handle_errors(name, o) ==
    IF o.raised = "none"
    THEN o
    ELSE [o EXCEPT !.raised = "none",
                   !.result = None,
                   !.printed = @ \o <<Msg("error", name, o.raised, 0, 0)>>]

(***************************************************************************)
(* Loading.  A path is the sequence of its dot-separated parts, the last   *)
(* one being the extension str.endswith looks at.                          *)
(***************************************************************************)
Paths == { <<"sales", ".csv">>, <<"sales", ".xlsx">>, <<"sales", ".xls">>,
           <<"sales", ".json">>, <<"sales", ".txt">>, <<"sales", ".CSV">> }

\* The example Table of the specification.
SampleSales == << Row(Str("A"), Num(600)), Row(Str("A"), Num(400)), Row(Str("B"), Num(900)) >>

\* A Table of five rows, one a duplicate and one with a missing value.
DirtySales ==
    << Row(Str("A"), Num(600)), Row(Str("A"), Num(400)), Row(Str("A"), Num(600)),
       Row(Str("B"), NaN), Row(Str("B"), Num(900)) >>

endswith(path, suffix) == Len(path) > 0 /\ path[Len(path)] = suffix

\* What is on disk at a path is a record: bytes the tabular reader can decode
\* into `rows` (decodable), or bytes on which it raises.

\* pd.read_csv / pd.read_excel / pd.read_json
read_file(content) ==
    IF content.decodable
    THEN [raised |-> "none", rows |-> content.rows]
    ELSE [raised |-> "ParserError", rows |-> <<>>]

\* The undecorated body of DataProcessor._load_file: the decoded rows, or
\* the exception that left the body.
load_file_body(path, content) ==
    IF endswith(path, ".csv") THEN read_file(content)
    ELSE IF endswith(path, ".xlsx") \/ endswith(path, ".xls") THEN read_file(content)
    ELSE IF endswith(path, ".json") THEN read_file(content)
    ELSE [raised |-> "FileLoadError", rows |-> <<>>]

\* _load_file as decorated with @handle_errors: an exception of the body is
\* printed and None is returned in place of a Table.
load_file(path, content) ==
    LET b == load_file_body(path, content)
    IN  IF b.raised = "none"
        THEN [isNone |-> FALSE, rows |-> b.rows, printed |-> <<>>]
        ELSE [isNone |-> TRUE, rows |-> <<>>,
              printed |-> <<Msg("error", "_load_file", b.raised, 0, 0)>>]

\* DataProcessor.__init__: self.data.shape on a None data raises
\* AttributeError, which nothing catches.
init(path, content) ==
    LET l == load_file(path, content)
    IN  IF l.isNone
        THEN [raised |-> "AttributeError", rows |-> <<>>, printed |-> l.printed]
        ELSE [raised |-> "none", rows |-> l.rows,
              printed |-> l.printed \o
                  <<Msg("loaded", "__init__", "", Len(l.rows), Len(Columns))>>]

(***************************************************************************)
(* clean                                                                   *)
(***************************************************************************)
RECURSIVE drop_dup_from(_, _, _)
\* DataFrame.drop_duplicates scans the rows in order and keeps the first
\* occurrence of each (missing cells compare equal to each other).
drop_dup_from(rows, i, kept) ==
    IF i > Len(rows) THEN kept
    ELSE IF \E j \in 1..Len(kept) : kept[j] = rows[i]
         THEN drop_dup_from(rows, i + 1, kept)
         ELSE drop_dup_from(rows, i + 1, Append(kept, rows[i]))

RECURSIVE drop_first_dup(_, _, _)
drop_first_dup(rows, i, kept) ==
    IF i > Len(rows) THEN kept
    ELSE IF \E j \in 1..Len(kept) : kept[j] = rows[i]
         THEN kept \o SubSeq(rows, i + 1, Len(rows))
         ELSE drop_first_dup(rows, i + 1, Append(kept, rows[i]))

\* Variant of drop_duplicates: only the first duplicate found is removed.
drop_duplicates_once(rows) == drop_first_dup(rows, 1, <<>>)

drop_duplicates(rows) == drop_dup_from(rows, 1, <<>>)

RECURSIVE dropna_from(_, _, _)
\* DataFrame.dropna drops every row that has a missing cell in any column.
dropna_from(rows, i, kept) ==
    IF i > Len(rows) THEN kept
    ELSE IF \E c \in ColumnSet : IsNull(rows[i][c])
         THEN dropna_from(rows, i + 1, kept)
         ELSE dropna_from(rows, i + 1, Append(kept, rows[i]))

\* Variant of dropna: only rows whose cells are all missing are dropped
\* (how='all').
dropna_all(rows) ==
    SelectSeq(rows, LAMBDA row : \E c \in ColumnSet : ~IsNull(row[c]))

dropna(rows) == dropna_from(rows, 1, <<>>)

\* `before - after` at line 152: both operands are shape tuples, and Python
\* defines no subtraction on tuples.
tuple_minus(before, after) == [raised |-> "TypeError", value |-> 0]

\* The undecorated body of DataProcessor.clean.
clean_body(self) ==
    LET before == Shape(self.data)
        d1 == drop_duplicates(self.data)
        d2 == dropna(d1)
        after == Shape(d2)
        rows_removed == tuple_minus(before, after)
    IN  IF rows_removed.raised # "none"
        THEN Outcome(d2, {}, None, rows_removed.raised, <<>>)
        ELSE Outcome(d2, {}, None, "none",
                     << Msg("cleaned", "clean", "", rows_removed.value, 0),
                        Msg("before_after", "clean", "", before[1], after[1]) >>)

\* @timer @log_operation def clean
clean(self) == timer("clean", log_operation("clean", clean_body(self)))

(***************************************************************************)
(* analyze                                                                 *)
(***************************************************************************)
RECURSIVE count_where(_, _, _, _)
\* Number of rows from index i on whose cell in column c is (isnull = TRUE)
\* or is not (isnull = FALSE) missing.
count_where(rows, c, isnull, i) ==
    IF i > Len(rows) THEN 0
    ELSE (IF IsNull(rows[i][c]) = isnull THEN 1 ELSE 0) + count_where(rows, c, isnull, i + 1)

\* Variant of analyze_body: the report's original_shape is taken from the
\* current Table.
analyze_body_current(self) ==
    LET report == [ filename |-> self.filepath,
                    original_shape |-> Shape(self.data),
                    current_shape |-> Shape(self.data),
                    columns |-> Columns,
                    data_types |-> self.dtypes,
                    statistics |-> [c \in ColumnSet |-> count_where(self.data, c, FALSE, 1)],
                    missing_values |-> [c \in ColumnSet |-> count_where(self.data, c, TRUE, 1)] ]
    IN  Returns(self, ReportValue(report),
                <<Msg("analysis_complete", "analyze", "", Len(Columns), 0)>>)

\* The undecorated body of DataProcessor.analyze.  Of describe()'s
\* statistics the model keeps each column's count of non-missing cells.
analyze_body(self) ==
    LET stats == [c \in ColumnSet |-> count_where(self.data, c, FALSE, 1)]
        report == [ filename |-> self.filepath,
                    original_shape |-> self.original_shape,
                    current_shape |-> Shape(self.data),
                    columns |-> Columns,
                    data_types |-> self.dtypes,
                    statistics |-> stats,
                    missing_values |-> [c \in ColumnSet |-> count_where(self.data, c, TRUE, 1)] ]
    IN  Returns(self, ReportValue(report),
                <<Msg("analysis_complete", "analyze", "", Len(Columns), 0)>>)

\* @timer @log_operation def analyze
analyze(self) == timer("analyze", log_operation("analyze", analyze_body(self)))

(***************************************************************************)
(* filter_data                                                             *)
(***************************************************************************)
OrderingOps == {">", "<", ">=", "<="}

\* Python's comparison of two values of one type (numbers, or the ranks of
\* two strings).
py_compare(op, a, b) ==
    CASE op = ">"  -> a > b
      [] op = "<"  -> a < b
      [] op = "==" -> a = b
      [] op = "!=" -> a # b
      [] op = ">=" -> a >= b
      [] op = "<=" -> a <= b

\* Variant of cell_compare: '>=' and '<=' compare strictly.
cell_compare_strict(cell, op, value) ==
    IF IsNull(cell) THEN op = "!="
    ELSE IF cell.t = "num" /\ value.t = "num"
         THEN py_compare(IF op = ">=" THEN ">" ELSE IF op = "<=" THEN "<" ELSE op,
                         cell.n, value.n)
    ELSE IF cell.t = "str" /\ value.t = "str"
         THEN py_compare(op, StrOrd(cell.s), StrOrd(value.s))
    ELSE op = "!="

\* One element of `series <op> value`: a missing cell compares unequal to
\* everything, and so do values of different types.
cell_compare(cell, op, value) ==
    IF IsNull(cell) THEN op = "!="
    ELSE IF cell.t = "num" /\ value.t = "num" THEN py_compare(op, cell.n, value.n)
    ELSE IF cell.t = "str" /\ value.t = "str"
         THEN py_compare(op, StrOrd(cell.s), StrOrd(value.s))
    ELSE op = "!="

\* `series <op> value` raises TypeError for an ordering of a numeric column
\* against a string, and of an object column as soon as one of its cells is
\* of another type than the value.
compare_raises(self, column, op, value) ==
    /\ op \in OrderingOps
    /\ IF IsNumericDtype(self.dtypes[column])
       THEN value.t = "str"
       ELSE \E i \in 1..Len(self.data) :
                ~IsNull(self.data[i][column]) /\ self.data[i][column].t # value.t

RECURSIVE take_from(_, _, _, _, _, _)
\* self.data[mask]: the rows whose element of the mask is True, in order.
take_from(rows, column, op, value, i, kept) ==
    IF i > Len(rows) THEN kept
    ELSE take_from(rows, column, op, value, i + 1,
                   IF cell_compare(rows[i][column], op, value)
                   THEN Append(kept, rows[i]) ELSE kept)

\* self.data = self.data[self.data[column] <op> value], followed by the
\* report of the row counts at lines 227-228.
apply_filter(self, column, op, value) ==
    IF compare_raises(self, column, op, value)
    THEN Outcome(self.data, {}, None, "TypeError", <<>>)
    ELSE LET kept == take_from(self.data, column, op, value, 1, <<>>)
         IN  Outcome(kept, {}, None, "none",
                     <<Msg("filter_applied", "filter_data", column, Len(self.data), Len(kept))>>)

\* Variant of filter_data_body: an unsupported operator selects no row.
filter_data_body_empties(self, column, operator, value) ==
    IF column \notin ColumnSet
    THEN Returns(self, None, <<Msg("column_not_found", "filter_data", column, 0, 0)>>)
    ELSE IF operator \in {">", "<", "==", "!=", ">=", "<="}
    THEN apply_filter(self, column, operator, value)
    ELSE Outcome(<<>>, {}, None, "none",
                 <<Msg("invalid_operator", "filter_data", operator, 0, 0)>>)

\* The undecorated body of DataProcessor.filter_data.
filter_data_body(self, column, operator, value) ==
    IF column \notin ColumnSet
    THEN Returns(self, None, <<Msg("column_not_found", "filter_data", column, 0, 0)>>)
    ELSE IF operator = ">"  THEN apply_filter(self, column, ">", value)
    ELSE IF operator = "<"  THEN apply_filter(self, column, "<", value)
    ELSE IF operator = "==" THEN apply_filter(self, column, "==", value)
    ELSE IF operator = "!=" THEN apply_filter(self, column, "!=", value)
    ELSE IF operator = ">=" THEN apply_filter(self, column, ">=", value)
    ELSE IF operator = "<=" THEN apply_filter(self, column, "<=", value)
    ELSE Returns(self, None, <<Msg("invalid_operator", "filter_data", operator, 0, 0)>>)

\* @timer def filter_data
filter_data(self, column, operator, value) ==
    timer("filter_data", filter_data_body(self, column, operator, value))

(***************************************************************************)
(* group_by                                                                *)
(***************************************************************************)
RECURSIVE gcd(_, _)
gcd(a, b) == IF b = 0 THEN a ELSE gcd(b, a % b)

\* A float result, kept exact as a fraction in lowest terms.
Float(num, den) == [t |-> "float", num |-> num \div gcd(num, den), den |-> den \div gcd(num, den)]

RECURSIVE group_keys_with_missing(_, _, _, _)
\* Variant of group_keys: a missing key forms a group too (dropna=False).
group_keys_with_missing(rows, column, i, keys) ==
    IF i > Len(rows) THEN keys
    ELSE group_keys_with_missing(rows, column, i + 1, keys \cup {rows[i][column]})

RECURSIVE group_keys(_, _, _, _)
\* The keys of DataFrame.groupby(column): the distinct values of the column,
\* rows with a missing key being left out of every group.
group_keys(rows, column, i, keys) ==
    IF i > Len(rows) THEN keys
    ELSE group_keys(rows, column, i + 1,
                    IF IsNull(rows[i][column]) THEN keys ELSE keys \cup {rows[i][column]})

RECURSIVE group_size(_, _, _, _)
\* groupby(column).size(): the number of rows of one group.
group_size(rows, column, key, i) ==
    IF i > Len(rows) THEN 0
    ELSE (IF rows[i][column] = key THEN 1 ELSE 0) + group_size(rows, column, key, i + 1)

RECURSIVE group_values(_, _, _, _, _)
\* The non-missing values of column c in the rows of one group, in order
\* (the aggregations skip missing values).
group_values(rows, column, key, c, i) ==
    IF i > Len(rows) THEN <<>>
    ELSE IF rows[i][column] = key /\ ~IsNull(rows[i][c])
         THEN <<rows[i][c].n>> \o group_values(rows, column, key, c, i + 1)
         ELSE group_values(rows, column, key, c, i + 1)

RECURSIVE seq_sum(_)
seq_sum(xs) == IF Len(xs) = 0 THEN 0 ELSE Head(xs) + seq_sum(Tail(xs))

RECURSIVE seq_min(_)
seq_min(xs) ==
    IF Len(xs) = 1 THEN xs[1]
    ELSE LET m == seq_min(Tail(xs)) IN IF Head(xs) < m THEN Head(xs) ELSE m

RECURSIVE seq_max(_)
seq_max(xs) ==
    IF Len(xs) = 1 THEN xs[1]
    ELSE LET m == seq_max(Tail(xs)) IN IF Head(xs) > m THEN Head(xs) ELSE m

\* One cell of groupby(column)[numeric_cols].<agg>(): sum of no values is 0,
\* the other aggregates of no values are missing.
aggregate(agg, xs) ==
    CASE agg = "mean" -> IF Len(xs) = 0 THEN NaN ELSE Float(seq_sum(xs), Len(xs))
      [] agg = "sum"  -> Num(seq_sum(xs))
      [] agg = "min"  -> IF Len(xs) = 0 THEN NaN ELSE Num(seq_min(xs))
      [] agg = "max"  -> IF Len(xs) = 0 THEN NaN ELSE Num(seq_max(xs))

\* self.data.select_dtypes(include=[np.number]).columns.tolist()
numeric_cols(self) == { c \in ColumnSet : IsNumericDtype(self.dtypes[c]) }

\* self.data.groupby(column)[numeric_cols].<agg>()
grouped_agg(self, column, agg) ==
    [ key \in group_keys(self.data, column, 1, {}) |->
        [ c \in numeric_cols(self) |->
            aggregate(agg, group_values(self.data, column, key, c, 1)) ] ]

\* self.data.groupby(column).size()
grouped_size(self, column) ==
    [ key \in group_keys(self.data, column, 1, {}) |->
        group_size(self.data, column, key, 1) ]

\* Variant of grouped_outcome: the rows with a missing key are dropped from
\* the Table itself.
grouped_outcome_dropping(self, column, agg_func, res) ==
    Outcome(SelectSeq(self.data, LAMBDA row : ~IsNull(row[column])), {},
            GroupedValue(res), "none",
            << Msg("grouped_by", "group_by", column, 0, 0),
               Msg("print_result", "group_by", agg_func, 0, 0) >>)

grouped_outcome(self, column, agg_func, res) ==
    Returns(self, GroupedValue(res),
            << Msg("grouped_by", "group_by", column, 0, 0),
               Msg("print_result", "group_by", agg_func, 0, 0) >>)

\* The undecorated body of DataProcessor.group_by.
group_by_body(self, column, agg_func) ==
    IF column \notin ColumnSet
    THEN Returns(self, None, <<Msg("column_not_found", "group_by", column, 0, 0)>>)
    ELSE IF agg_func = "mean"
         THEN grouped_outcome(self, column, agg_func, grouped_agg(self, column, "mean"))
    ELSE IF agg_func = "sum"
         THEN grouped_outcome(self, column, agg_func, grouped_agg(self, column, "sum"))
    ELSE IF agg_func = "count"
         THEN grouped_outcome(self, column, agg_func, grouped_size(self, column))
    ELSE IF agg_func = "min"
         THEN grouped_outcome(self, column, agg_func, grouped_agg(self, column, "min"))
    ELSE IF agg_func = "max"
         THEN grouped_outcome(self, column, agg_func, grouped_agg(self, column, "max"))
    ELSE Returns(self, None, <<Msg("invalid_aggregation", "group_by", agg_func, 0, 0)>>)

\* @timer def group_by
group_by(self, column, agg_func) == timer("group_by", group_by_body(self, column, agg_func))

(***************************************************************************)
(* plot_graph, save_report, show_info                                      *)
(***************************************************************************)
\* A file a call wrote: its path, its format, and the value serialised in it.
File(path, content, body) == [path |-> path, content |-> content, body |-> body]

PlotFile(x_col, y_col) == File(<<"plot_", x_col, y_col, ".png">>, "plot", None)

\* The undecorated body of DataProcessor.plot_graph.  `matplotlib` tells
\* whether the import succeeds; DataFrame.plot raises TypeError when the y
\* column holds no numeric data.
plot_graph_body(self, x_col, y_col, kind, matplotlib) ==
    IF ~matplotlib
    THEN Returns(self, None, <<Msg("matplotlib_missing", "plot_graph", "", 0, 0)>>)
    ELSE IF x_col \notin ColumnSet \/ y_col \notin ColumnSet
    THEN Returns(self, None, <<Msg("column_not_found", "plot_graph", "", 0, 0)>>)
    ELSE IF ~IsNumericDtype(self.dtypes[y_col])
    THEN Outcome(self.data, {}, None, "TypeError", <<>>)
    ELSE Outcome(self.data, {PlotFile(x_col, y_col)}, None, "none",
                 <<Msg("plot_saved", "plot_graph", kind, 0, 0)>>)

\* @handle_errors def plot_graph
plot_graph(self, x_col, y_col, kind, matplotlib) ==
    handle_errors("plot_graph", plot_graph_body(self, x_col, y_col, kind, matplotlib))

\* Variant of save_report: a path with any other extension is written as
\* JSON too.
save_report_any(self, report, output_file) ==
    IF endswith(output_file, ".csv") /\ report.kind # "None"
    THEN Outcome(self.data,
                 {File(output_file, "statistics",
                       [kind |-> "Statistics", val |-> report.val.statistics])}, None,
                 "none", <<Msg("statistics_saved", "save_report", "", 0, 0)>>)
    ELSE IF endswith(output_file, ".csv")
    THEN Outcome(self.data, {}, None, "TypeError", <<>>)
    ELSE Outcome(self.data, {File(output_file, "json", report)}, None, "none",
                 <<Msg("report_saved", "save_report", "", 0, 0)>>)

\* DataProcessor.save_report (undecorated).  json.dump serialises any report
\* (default=str); report['statistics'] raises TypeError on a None report.
save_report(self, report, output_file) ==
    IF endswith(output_file, ".json")
    THEN Outcome(self.data, {File(output_file, "json", report)}, None, "none",
                 <<Msg("report_saved", "save_report", "", 0, 0)>>)
    ELSE IF endswith(output_file, ".csv")
    THEN IF report.kind = "None"
         THEN Outcome(self.data, {}, None, "TypeError", <<>>)
         ELSE Outcome(self.data,
                      {File(output_file, "statistics",
                            [kind |-> "Statistics", val |-> report.val.statistics])}, None,
                      "none", <<Msg("statistics_saved", "save_report", "", 0, 0)>>)
    ELSE Returns(self, None, <<Msg("unsupported_format", "save_report", "", 0, 0)>>)

\* DataProcessor.show_info (undecorated): prints the overview.
show_info(self) ==
    Returns(self, None, <<Msg("overview", "show_info", "", Len(self.data), Len(Columns))>>)

(***************************************************************************)
(* The pipeline as a state machine: a caller constructs a DataProcessor    *)
(* and then calls its methods in any order, catching what they raise.      *)
(***************************************************************************)
NoCell == Str("")
NoPath == <<>>

Call(name, column, operator, value, agg_func, y_col, output_file) ==
    [name |-> name, column |-> column, operator |-> operator, value |-> value,
     agg_func |-> agg_func, y_col |-> y_col, output_file |-> output_file]

SimpleCall(name) == Call(name, "", "", NoCell, "", "", NoPath)

\* The arguments callers pass: every operator on each column with a value
\* of the column's type, some with a value of the other type, an absent
\* column and an unsupported operator or aggregation.
OperatorArgs == {">", "<", "==", "!=", ">=", "<=", "=>"}
FilterArgs ==
    ({"Sales"} \X OperatorArgs \X {Num(600)})
    \cup ({"Region"} \X OperatorArgs \X {Str("A")})
    \cup ({"Sales"} \X {">", "=="} \X {Str("A")})
    \cup ({"Region"} \X {">", "!="} \X {Num(600)})
    \cup ({"Profit"} \X {">", "=>"} \X {Num(600)})
AggArgs == {"mean", "sum", "count", "min", "max", "median"}
GroupArgs ==
    ({"Region"} \X AggArgs) \cup ({"Sales"} \X {"mean", "count"})
    \cup ({"Profit"} \X {"mean", "median"})
PlotArgs == { <<"Region", "Sales">>, <<"Sales", "Region">>, <<"Region", "Profit">> }
OutputArgs == { <<"report", ".json">>, <<"report", ".csv">>, <<"report", ".txt">> }

\* The files a caller may name: any Table in a CSV file; the example Table
\* in the other formats; the five-row Table; a file the reader cannot decode.
Decodable(rows) == [decodable |-> TRUE, rows |-> rows]
Undecodable == [decodable |-> FALSE, rows |-> <<>>]
LoadArgs ==
    ({<<"sales", ".csv">>} \X {Decodable(t) : t \in Tables})
    \cup (Paths \X {Decodable(SampleSales), Undecodable})
    \cup {<< <<"dirty", ".csv">>, Decodable(DirtySales) >>}

(***************************************************************************)
(* The command line of src/processor.py.  argv is a sequence of options,   *)
(* each with up to three operands; --input comes first.                    *)
(***************************************************************************)
Option(flag, a, b, c) == [flag |-> flag, a |-> a, b |-> b, c |-> c]

\* The namespace argparse starts from: store_true options False, the others
\* None (an empty tuple here), --kind 'line'.
DefaultArgs ==
    [input |-> NoPath, output |-> NoPath, clean |-> FALSE, analyze |-> FALSE,
     info |-> FALSE, filter |-> <<>>, groupby |-> <<>>, plot |-> <<>>, kind |-> "line"]

\* What one option stores in the namespace.
store(ns, o) ==
    CASE o.flag = "--input"   -> [ns EXCEPT !.input = <<o.a, o.b>>]
      [] o.flag = "--output"  -> [ns EXCEPT !.output = <<o.a, o.b>>]
      [] o.flag = "--clean"   -> [ns EXCEPT !.clean = TRUE]
      [] o.flag = "--analyze" -> [ns EXCEPT !.analyze = TRUE]
      [] o.flag = "--info"    -> [ns EXCEPT !.info = TRUE]
      [] o.flag = "--filter"  -> [ns EXCEPT !.filter = <<o.a, o.b, o.c>>]
      [] o.flag = "--groupby" -> [ns EXCEPT !.groupby = <<o.a, o.b>>]
      [] o.flag = "--plot"    -> [ns EXCEPT !.plot = <<o.a, o.b>>]

RECURSIVE parse_from(_, _, _)
parse_from(line, i, ns) ==
    IF i > Len(line) THEN ns ELSE parse_from(line, i + 1, store(ns, line[i]))

\* parser.parse_args(): the options are stored in the order they are read.
parse_args(line) == parse_from(line, 1, DefaultArgs)

\* float(val) at lines 62-65: the number a numeric literal denotes, else the
\* string itself.
NumericLiterals == [text \in {"600"} |-> 600]
to_value(text) ==
    IF text \in DOMAIN NumericLiterals THEN Num(NumericLiterals[text]) ELSE Str(text)

\* The files the command line may name, and what is in them.
CliInputs == { <<"sales", ".csv">>, <<"dirty", ".csv">>, <<"sales", ".txt">>, <<"broken", ".json">> }
Disk(path) ==
    CASE path = <<"dirty", ".csv">>   -> Decodable(DirtySales)
      [] path = <<"broken", ".json">> -> Undecodable
      [] OTHER                        -> Decodable(SampleSales)

\* The options a command line may carry besides --input.
CliOptions ==
    { Option("--info", "", "", ""), Option("--clean", "", "", ""),
      Option("--analyze", "", "", ""),
      Option("--filter", "Sales", ">", "600"), Option("--filter", "Region", ">", "600"),
      Option("--groupby", "Region", "count", ""),
      Option("--plot", "Region", "Sales", ""),
      Option("--output", "report", ".json", "") }

\* Command lines: --input, then up to MaxFlags options in any order, no
\* option twice.
CommandLines ==
    { <<Option("--input", p[1], p[2], "")>> \o rest :
        p \in CliInputs,
        rest \in { r \in UNION { [1..n -> CliOptions] : n \in 0..MaxFlags } :
                     \A i, j \in 1..Len(r) : i # j => r[i].flag # r[j].flag } }

\* Variant of MainOrder: the filter block comes before the clean block.
MainOrderFilterFirst ==
    <<"construct", "show_info", "info", "filter", "clean", "groupby", "analyze", "plot", "done">>

\* The statement blocks of main() after parse_args, in program order.
MainOrder ==
    <<"construct", "show_info", "info", "clean", "filter", "groupby", "analyze", "plot", "done">>

\* The block control reaches after block b completes.
next_block(b) ==
    LET i == CHOOSE k \in 1..Len(MainOrder) : MainOrder[k] = b IN MainOrder[i + 1]

Init ==
    /\ pc = "new"
    /\ filepath = NoPath
    /\ data = <<>>
    /\ dtypes = InferDtypes(<<>>)
    /\ original_shape = <<>>
    /\ call = SimpleCall("")
    /\ repeated = FALSE
    /\ result = None
    /\ raised = "none"
    /\ printed = <<>>
    /\ written = {}
    /\ argv = <<>>
    /\ args = DefaultArgs
    /\ trace = <<>>

\* dp = DataProcessor(path): on success the object exists with its Table and
\* original shape; on an exception no object is bound.
Constructed(path, content, next_pc, failed_pc) ==
    LET o == init(path, content)
    IN  /\ call' = Call("__init__", "", "", NoCell, "", "", path)
        /\ repeated' = FALSE
        /\ filepath' = path
        /\ raised' = o.raised
        /\ printed' = o.printed
        /\ result' = None
        /\ written' = {}
        /\ IF o.raised = "none"
           THEN /\ pc' = next_pc
                /\ data' = o.rows
                /\ dtypes' = InferDtypes(o.rows)
                /\ original_shape' = Shape(o.rows)
           ELSE /\ pc' = failed_pc
                /\ UNCHANGED <<data, dtypes, original_shape>>

\* The effect of a method call c with outcome o on the object and on what
\* the caller observes.
Called(c, o) ==
    /\ call' = c
    /\ repeated' = (call.name = c.name)
    /\ data' = o.data
    /\ result' = o.result
    /\ raised' = o.raised
    /\ printed' = o.printed
    /\ written' = o.written
    /\ UNCHANGED <<filepath, dtypes, original_shape>>

Construct ==
    /\ pc = "new"
    /\ \E a \in LoadArgs : Constructed(a[1], a[2], "ready", "failed")
    /\ UNCHANGED <<argv, args, trace>>

Clean ==
    /\ pc = "ready"
    /\ Called(SimpleCall("clean"), clean(Self))
    /\ UNCHANGED <<pc, argv, args, trace>>

Analyze ==
    /\ pc = "ready"
    /\ Called(SimpleCall("analyze"), analyze(Self))
    /\ UNCHANGED <<pc, argv, args, trace>>

FilterData ==
    /\ pc = "ready"
    /\ \E a \in FilterArgs :
           Called(Call("filter_data", a[1], a[2], a[3], "", "", NoPath),
                  filter_data(Self, a[1], a[2], a[3]))
    /\ UNCHANGED <<pc, argv, args, trace>>

GroupBy ==
    /\ pc = "ready"
    /\ \E a \in GroupArgs :
           Called(Call("group_by", a[1], "", NoCell, a[2], "", NoPath),
                  group_by(Self, a[1], a[2]))
    /\ UNCHANGED <<pc, argv, args, trace>>

PlotGraph ==
    /\ pc = "ready"
    /\ \E a \in PlotArgs, matplotlib \in BOOLEAN :
           Called(Call("plot_graph", a[1], "", NoCell, "", a[2], NoPath),
                  plot_graph(Self, a[1], a[2], "line", matplotlib))
    /\ UNCHANGED <<pc, argv, args, trace>>

\* The caller passes on what the previous call returned: a Report or None.
SaveReport ==
    /\ pc = "ready"
    /\ result.kind \in {"Report", "None"}
    /\ \E output_file \in OutputArgs :
           Called(Call("save_report", "", "", NoCell, "", "", output_file),
                  save_report(Self, result, output_file))
    /\ UNCHANGED <<pc, argv, args, trace>>

ShowInfo ==
    /\ pc = "ready"
    /\ Called(SimpleCall("show_info"), show_info(Self))
    /\ UNCHANGED <<pc, argv, args, trace>>

Next ==
    \/ Construct
    \/ Clean
    \/ Analyze
    \/ FilterData
    \/ GroupBy
    \/ PlotGraph
    \/ SaveReport
    \/ ShowInfo

Spec == Init /\ [][Next]_vars

(***************************************************************************)
(* main() of src/processor.py: one action per statement block.  An         *)
(* exception that escapes a call ends the run with a traceback.            *)
(* DataProcessor is the class of src/dataproc1.py, the only one with the   *)
(* methods main() calls.                                                   *)
(***************************************************************************)
CLIInit ==
    /\ pc = "parse"
    /\ argv \in CommandLines
    /\ filepath = NoPath
    /\ data = <<>>
    /\ dtypes = InferDtypes(<<>>)
    /\ original_shape = <<>>
    /\ call = SimpleCall("")
    /\ repeated = FALSE
    /\ result = None
    /\ raised = "none"
    /\ printed = <<>>
    /\ written = {}
    /\ args = DefaultArgs
    /\ trace = <<>>

\* main() calls method c, whose outcome is o, and goes on to `next` unless
\* the call raised.
MainCall(c, o, next) ==
    /\ Called(c, o)
    /\ trace' = Append(trace, c.name)
    /\ pc' = IF o.raised = "none" THEN next ELSE "crashed"
    /\ UNCHANGED <<argv, args>>

\* The block's condition is false: nothing is called.
MainSkip(next) ==
    /\ pc' = next
    /\ UNCHANGED <<filepath, data, dtypes, original_shape, call, repeated, result,
                   raised, printed, written, argv, args, trace>>

MainParse ==
    /\ pc = "parse"
    /\ args' = parse_args(argv)
    /\ pc' = "construct"
    /\ UNCHANGED <<filepath, data, dtypes, original_shape, call, repeated, result,
                   raised, printed, written, argv, trace>>

MainConstruct ==
    /\ pc = "construct"
    /\ Constructed(args.input, Disk(args.input), next_block("construct"), "crashed")
    /\ trace' = Append(trace, "__init__")
    /\ UNCHANGED <<argv, args>>

MainShowInfo ==
    /\ pc = "show_info"
    /\ MainCall(SimpleCall("show_info"), show_info(Self), next_block("show_info"))

MainInfo ==
    /\ pc = "info"
    /\ IF args.info
       THEN MainCall(SimpleCall("show_info"), show_info(Self), next_block("info"))
       ELSE MainSkip(next_block("info"))

MainClean ==
    /\ pc = "clean"
    /\ IF args.clean
       THEN MainCall(SimpleCall("clean"), clean(Self), next_block("clean"))
       ELSE MainSkip(next_block("clean"))

MainFilter ==
    /\ pc = "filter"
    /\ IF args.filter # <<>>
       THEN LET col == args.filter[1]
                op == args.filter[2]
                val == to_value(args.filter[3])
            IN  MainCall(Call("filter_data", col, op, val, "", "", NoPath),
                         filter_data(Self, col, op, val), next_block("filter"))
       ELSE MainSkip(next_block("filter"))

MainGroupBy ==
    /\ pc = "groupby"
    /\ IF args.groupby # <<>>
       THEN LET col == args.groupby[1]
                func == args.groupby[2]
            IN  MainCall(Call("group_by", col, "", NoCell, func, "", NoPath),
                         group_by(Self, col, func), next_block("groupby"))
       ELSE MainSkip(next_block("groupby"))

MainAnalyze ==
    /\ pc = "analyze"
    /\ IF args.analyze
       THEN MainCall(SimpleCall("analyze"), analyze(Self), "report")
       ELSE MainSkip(next_block("analyze"))

\* Lines 74-79: the report analyze returned is saved, or printed as JSON.
MainReport ==
    /\ pc = "report"
    /\ IF args.output # NoPath
       THEN MainCall(Call("save_report", "", "", NoCell, "", "", args.output),
                     save_report(Self, result, args.output), next_block("analyze"))
       ELSE /\ printed' = <<Msg("analysis_report", "main", "", 0, 0)>>
            /\ pc' = next_block("analyze")
            /\ UNCHANGED <<filepath, data, dtypes, original_shape, call, repeated, result,
                           raised, written, argv, args, trace>>

MainPlot ==
    /\ pc = "plot"
    /\ IF args.plot # <<>>
       THEN \E matplotlib \in BOOLEAN :
                MainCall(Call("plot_graph", args.plot[1], "", NoCell, "", args.plot[2], NoPath),
                         plot_graph(Self, args.plot[1], args.plot[2], args.kind, matplotlib),
                         next_block("plot"))
       ELSE MainSkip(next_block("plot"))

CLINext ==
    \/ MainParse
    \/ MainConstruct
    \/ MainShowInfo
    \/ MainInfo
    \/ MainClean
    \/ MainFilter
    \/ MainGroupBy
    \/ MainAnalyze
    \/ MainReport
    \/ MainPlot

CLISpec == CLIInit /\ [][CLINext]_vars

(***************************************************************************)
(* Vocabulary of the properties.                                           *)
(***************************************************************************)
SupportedOperators == {">", "<", "==", "!=", ">=", "<="}
SupportedAggregations == {"mean", "sum", "count", "min", "max"}

Sign(a, b) == IF a < b THEN "less" ELSE IF a = b THEN "equal" ELSE "greater"

\* The orderings of (left, right) for which `left op right` is true.
Truth(op) ==
    CASE op = ">"  -> {"greater"}
      [] op = "<"  -> {"less"}
      [] op = "==" -> {"equal"}
      [] op = "!=" -> {"less", "greater"}
      [] op = ">=" -> {"greater", "equal"}
      [] op = "<=" -> {"less", "equal"}

Magnitude(cell) == IF cell.t = "num" THEN cell.n ELSE StrOrd(cell.s)

\* `cell op v` holds.  A missing cell is a NaN: it differs from every value
\* and is in no order with any; values of different types likewise differ.
Holds(cell, op, v) ==
    IF IsNull(cell) \/ cell.t # v.t
    THEN op = "!="
    ELSE Sign(Magnitude(cell), Magnitude(v)) \in Truth(op)

\* v can be compared with the cells of column c: a number with a numeric
\* column, a string with a column of strings.
Comparable(c, v) == v.t = (IF IsNumericDtype(dtypes[c]) THEN "num" ELSE "str")

\* The call c is a filter_data on an existing column with a supported operator.
IsFilter(c) ==
    c.name = "filter_data" /\ c.column \in ColumnSet /\ c.operator \in SupportedOperators

Matches(row, c) == Holds(row[c.column], c.operator, c.value)

\* s is t with some rows left out, the others in their order.
IsSubsequence(s, t) ==
    \E f \in [1..Len(s) -> 1..Len(t)] :
        /\ \A i, j \in 1..Len(s) : i < j => f[i] < f[j]
        /\ \A i \in 1..Len(s) : s[i] = t[f[i]]

NoDuplicateRows(rows) == \A i, j \in 1..Len(rows) : i # j => rows[i] # rows[j]
NoMissingValues(rows) == \A i \in 1..Len(rows) : \A c \in ColumnSet : ~IsNull(rows[i][c])

Printed(out, tags) == \E i \in 1..Len(out) : out[i].tag \in tags

(***************************************************************************)
(* C1: filter_data(c, op, v) on an existing column c, with a supported     *)
(* operator and a comparable value, returns normally and replaces the      *)
(* Table with exactly its rows for which row[c] op v holds, in their       *)
(* order; after two such calls in a row every remaining row satisfies both *)
(* predicates.                                                             *)
(***************************************************************************)
C1_FilterStep ==
    IsFilter(call') =>
        /\ Comparable(call'.column, call'.value) => raised' = "none"
        /\ raised' = "none" =>
               /\ data' = SelectSeq(data, LAMBDA row : Matches(row, call'))
               /\ (IsFilter(call) /\ raised = "none") =>
                      \A i \in 1..Len(data') :
                          Matches(data'[i], call) /\ Matches(data'[i], call')

C1_FilterKeepsExactlyMatchingRows == [][C1_FilterStep]_vars

\* Sales >= 600 and then Region == "A" on the example Table: 3 -> 2 -> 1 rows.
C1_Witness ==
    /\ IsFilter(call) /\ repeated /\ raised = "none"
    /\ original_shape = <<3, 2>>
    /\ call.column = "Region" /\ call.operator = "=="
    /\ Printed(printed, {"filter_applied"}) /\ printed[1].n = 2 /\ printed[1].m = 1
    /\ data = <<Row(Str("A"), Num(600))>>

(***************************************************************************)
(* C2: after clean() the Table has no two equal rows and no missing value, *)
(* its rows are rows of the Table before in the same relative order, and   *)
(* it has no more rows than before.                                        *)
(***************************************************************************)
C2_CleanStep ==
    call'.name = "clean" =>
        /\ NoDuplicateRows(data')
        /\ NoMissingValues(data')
        /\ IsSubsequence(data', data)
        /\ Len(data') <= Len(data)

C2_CleanRemovesDuplicatesAndMissing == [][C2_CleanStep]_vars

\* clean on the five-row Table with one duplicate and one missing value:
\* the three other rows are left, in their order.
C2_Witness ==
    /\ call.name = "clean" /\ ~repeated
    /\ filepath = <<"dirty", ".csv">> /\ original_shape = <<5, 2>>
    /\ data = SampleSales

(***************************************************************************)
(* C3: clean() completes normally and reports the number of rows removed,  *)
(* before_rows - after_rows.                                               *)
(***************************************************************************)
C3_CleanStep ==
    call'.name = "clean" =>
        /\ raised' = "none"
        /\ \E i \in 1..Len(printed') :
               printed'[i].tag = "cleaned" /\ printed'[i].n = Len(data) - Len(data')

C3_CleanReportsRowsRemoved == [][C3_CleanStep]_vars

(***************************************************************************)
(* C4: once the DataProcessor is constructed no per-operation call lets an *)
(* exception reach the caller, and main() goes on to the following steps.  *)
(***************************************************************************)
PerOperationCalls ==
    {"clean", "analyze", "filter_data", "group_by", "plot_graph", "save_report"}

C4_NoOperationFailurePropagates ==
    call.name \in PerOperationCalls => raised = "none" /\ pc # "crashed"

(***************************************************************************)
(* C5: a construction whose path has an unrecognized extension, or whose   *)
(* decode fails, fails with FileLoadError and leaves no DataProcessor.     *)
(***************************************************************************)
RecognizedExtensions == {".csv", ".xlsx", ".xls", ".json"}

C5_ConstructionFailsWithFileLoadError ==
    call.name = "__init__" =>
        /\ filepath[Len(filepath)] \notin RecognizedExtensions => pc \in {"failed", "crashed"}
        /\ pc \in {"failed", "crashed"} => raised = "FileLoadError"

(***************************************************************************)
(* C6: filter_data with an absent column or an unsupported operator, and   *)
(* group_by with an absent column or an unsupported aggregation, print an  *)
(* error, return None, raise nothing and leave the Table as it was.        *)
(***************************************************************************)
IsRejectedFilter(c) ==
    c.name = "filter_data" /\ (c.column \notin ColumnSet \/ c.operator \notin SupportedOperators)

IsRejectedGroupBy(c) ==
    c.name = "group_by" /\ (c.column \notin ColumnSet \/ c.agg_func \notin SupportedAggregations)

C6_RejectedStep ==
    (IsRejectedFilter(call') \/ IsRejectedGroupBy(call')) =>
        /\ data' = data
        /\ result' = None
        /\ raised' = "none"
        /\ Printed(printed', {"column_not_found", "invalid_operator", "invalid_aggregation"})

C6_RejectedCallsLeaveTableUnchanged == [][C6_RejectedStep]_vars

\* An unsupported operator on an existing column of a Table with rows.
C6_Witness ==
    /\ IsRejectedFilter(call) /\ call.column = "Sales" /\ call.operator = "=>"
    /\ data = SampleSales
    /\ result = None /\ Printed(printed, {"invalid_operator"})

(***************************************************************************)
(* C7: original_shape is the shape of the Table as loaded and no call      *)
(* changes it; a Report carries it together with the shape of the Table    *)
(* analyze was called on.                                                  *)
(***************************************************************************)
C7_ShapeStep ==
    /\ (call'.name = "__init__" /\ raised' = "none") => original_shape' = Shape(data')
    /\ call'.name # "__init__" => original_shape' = original_shape
    /\ (call'.name = "analyze" /\ result'.kind = "Report") =>
           /\ result'.val.original_shape = original_shape
           /\ result'.val.current_shape = Shape(data)

C7_OriginalShapeIsShapeAtLoad == [][C7_ShapeStep]_vars

\* A Report made after rows were removed from the example Table.
C7_Witness ==
    /\ call.name = "analyze" /\ result.kind = "Report"
    /\ result.val.original_shape = <<3, 2>>
    /\ result.val.current_shape = <<1, 2>>
    /\ Len(data) = 1

(***************************************************************************)
(* C8: whatever the order of the options on the command line, main() runs  *)
(* the requested operations in the order info, clean, filter, group-by,    *)
(* analyze, save, plot: what has run so far is always an initial part of   *)
(* the requested operations in that order, and all of it when main() ends. *)
(***************************************************************************)
FixedOrder ==
    <<"show_info", "clean", "filter_data", "group_by", "analyze", "save_report", "plot_graph">>

Given(flag) == \E i \in 1..Len(argv) : argv[i].flag = flag

Requested(op) ==
    CASE op = "show_info"   -> Given("--info")
      [] op = "clean"       -> Given("--clean")
      [] op = "filter_data" -> Given("--filter")
      [] op = "group_by"    -> Given("--groupby")
      [] op = "analyze"     -> Given("--analyze")
      [] op = "save_report" -> Given("--analyze") /\ Given("--output")
      [] op = "plot_graph"  -> Given("--plot")

IsPrefix(s, t) == Len(s) <= Len(t) /\ \A i \in 1..Len(s) : s[i] = t[i]

\* main() always constructs the DataProcessor and shows the overview first.
Preamble == <<"__init__", "show_info">>

C8_OperationsRunInFixedOrder ==
    LET expected == Preamble \o SelectSeq(FixedOrder, Requested)
    IN  /\ IsPrefix(trace, expected)
        /\ pc = "done" => trace = expected

\* --plot, --groupby, --info given in that order; run as info, group-by, plot.
C8_Witness ==
    /\ pc = "done"
    /\ Len(argv) = 4
    /\ argv[2].flag = "--plot" /\ argv[3].flag = "--groupby" /\ argv[4].flag = "--info"
    /\ trace = <<"__init__", "show_info", "show_info", "group_by", "plot_graph">>

(***************************************************************************)
(* C9: group_by(c, agg) on an existing column c returns one entry per      *)
(* distinct non-missing value of c.  For count the entry is the number of  *)
(* rows with that key; for mean, sum, min and max it holds, for each       *)
(* numeric column, that aggregate of the column's values in the rows with  *)
(* that key (missing values are no values: the sum of none is 0, the other *)
(* aggregates of none are missing).  The example Table grouped by Region   *)
(* gives mean {A: 500.0, B: 900.0} and count {A: 2, B: 1}.                 *)
(***************************************************************************)
RECURSIVE SumOver(_, _)
\* The sum of f[i] over the indices i in S.
SumOver(S, f) ==
    IF S = {} THEN 0
    ELSE LET i == CHOOSE x \in S : TRUE IN f[i] + SumOver(S \ {i}, f)

\* The rows of the group of key k, and those of them with a value in column col.
RowsOf(c, k) == { i \in 1..Len(data) : data[i][c] = k }
ValuedRowsOf(c, k, col) == { i \in RowsOf(c, k) : ~IsNull(data[i][col]) }

IsAggregateOf(entry, agg, c, k, col) ==
    LET S == ValuedRowsOf(c, k, col)
        v == [i \in S |-> data[i][col].n]
    IN  CASE agg = "sum"  -> entry = Num(SumOver(S, v))
          [] agg = "min"  ->
                IF S = {} THEN IsNull(entry)
                ELSE entry.t = "num" /\ (\E i \in S : v[i] = entry.n)
                                     /\ (\A i \in S : entry.n <= v[i])
          [] agg = "max"  ->
                IF S = {} THEN IsNull(entry)
                ELSE entry.t = "num" /\ (\E i \in S : v[i] = entry.n)
                                     /\ (\A i \in S : entry.n >= v[i])
          [] agg = "mean" ->
                IF S = {} THEN IsNull(entry)
                ELSE entry.t = "float" /\ entry.den > 0
                     /\ entry.num * Cardinality(S) = SumOver(S, v) * entry.den

C9_GroupByAggregatesPerKey ==
    (call.name = "group_by" /\ call.column \in ColumnSet
        /\ call.agg_func \in SupportedAggregations) =>
        LET c == call.column
            agg == call.agg_func
            NumericColumns == { col \in ColumnSet : dtypes[col] \in {"int64", "float64"} }
        IN  /\ raised = "none"
            /\ result.kind = "Grouped"
            /\ DOMAIN result.val = { data[i][c] : i \in { j \in 1..Len(data) : ~IsNull(data[j][c]) } }
            /\ \A k \in DOMAIN result.val :
                   IF agg = "count"
                   THEN result.val[k] = Cardinality(RowsOf(c, k))
                   ELSE /\ DOMAIN result.val[k] = NumericColumns
                        /\ \A col \in NumericColumns :
                               IsAggregateOf(result.val[k][col], agg, c, k, col)
            /\ (data = SampleSales /\ c = "Region" /\ agg = "count") =>
                   (result.val[Str("A")] = 2 /\ result.val[Str("B")] = 1)

\* The example: the mean of Sales by Region is 500.0 for A and 900.0 for B.
C9_Witness ==
    /\ call.name = "group_by" /\ call.column = "Region" /\ call.agg_func = "mean"
    /\ data = SampleSales
    /\ result.kind = "Grouped"
    /\ DOMAIN result.val = {Str("A"), Str("B")}
    /\ result.val[Str("A")]["Sales"] = [t |-> "float", num |-> 500, den |-> 1]
    /\ result.val[Str("B")]["Sales"] = [t |-> "float", num |-> 900, den |-> 1]

(***************************************************************************)
(* C10: a clean() called right after a clean() leaves the Table as the     *)
(* first call left it and removes no row.                                  *)
(***************************************************************************)
C10_SecondCleanStep ==
    (call.name = "clean" /\ call'.name = "clean") =>
        /\ data' = data
        /\ Len(data) - Len(data') = 0

C10_CleanIsIdempotent == [][C10_SecondCleanStep]_vars

\* A second clean right after a first one that had removed rows.
C10_Witness ==
    /\ call.name = "clean" /\ repeated
    /\ filepath = <<"dirty", ".csv">> /\ original_shape = <<5, 2>>
    /\ data = SampleSales

(***************************************************************************)
(* C11: save_report(report, path) writes a file only when path ends in     *)
(* .json (the whole report) or .csv (its statistics only); for any other   *)
(* extension it prints the unsupported-format message, writes no file and  *)
(* raises nothing; in every case the Table and original_shape stay as they *)
(* were.                                                                   *)
(***************************************************************************)
Extension(path) == path[Len(path)]

C11_SaveStep ==
    call'.name = "save_report" =>
        LET path == call'.output_file
        IN  /\ data' = data
            /\ original_shape' = original_shape
            /\ written' # {} => Extension(path) \in {".json", ".csv"}
            /\ \A f \in written' :
                   /\ f.path = path
                   /\ Extension(path) = ".json" => (f.content = "json" /\ f.body = result)
                   /\ Extension(path) = ".csv" =>
                          (f.content = "statistics" /\ f.body.kind = "Statistics"
                              /\ f.body.val = result.val.statistics)
            /\ Extension(path) \notin {".json", ".csv"} =>
                   /\ written' = {}
                   /\ raised' = "none"
                   /\ Printed(printed', {"unsupported_format"})

C11_SaveReportWritesOnlyJsonOrCsv == [][C11_SaveStep]_vars

\* save_report to a .txt path on the example Table: nothing is written.
C11_Witness ==
    /\ call.name = "save_report" /\ call.output_file = <<"report", ".txt">>
    /\ written = {} /\ raised = "none" /\ Printed(printed, {"unsupported_format"})
    /\ data = SampleSales /\ original_shape = <<3, 2>>

(***************************************************************************)
(* C12: analyze and group_by only read: whatever they return (a Report, a  *)
(* grouped result or None), the Table and original_shape are afterwards    *)
(* what they were before the call, and analyze writes no file.             *)
(***************************************************************************)
C12_ReadOnlyStep ==
    call'.name \in {"analyze", "group_by"} =>
        /\ data' = data
        /\ original_shape' = original_shape
        /\ result'.kind \in {"Report", "Grouped", "None"}
        /\ call'.name = "analyze" => written' = {}

C12_AnalyzeAndGroupByAreReadOnly == [][C12_ReadOnlyStep]_vars

\* group_by on Sales of the five-row Table, one of whose rows has no Sales:
\* the row is in no group and still in the Table.
C12_Witness ==
    /\ call.name = "group_by" /\ call.column = "Sales" /\ result.kind = "Grouped"
    /\ data = DirtySales /\ original_shape = <<5, 2>>
    /\ NaN \notin DOMAIN result.val

(***************************************************************************)
(* C13: when clean or analyze (timer around log_operation) is called and   *)
(* its body completes, the messages come in the order start, the body's    *)
(* own, completion, timing; each names the operation, not a wrapper; and   *)
(* the caller gets the body's result as it is.                             *)
(***************************************************************************)
WrapperTags == {"starting", "completed", "took"}

C13_WrappedCallOrder ==
    (call.name \in {"clean", "analyze"} /\ raised = "none") =>
        LET n == Len(printed)
        IN  /\ n >= 4
            /\ printed[1].tag = "starting"
            /\ \A i \in 2..(n - 2) : printed[i].tag \notin WrapperTags
            /\ printed[n - 1].tag = "completed"
            /\ printed[n].tag = "took"
            /\ \A i \in 1..n : printed[i].who = call.name
            /\ call.name = "analyze" => result = analyze_body(Self).result
            /\ call.name = "clean" => result = None

\* analyze on the example Table: start, "analysis complete", completion,
\* timing, and the Report returned.
C13_Witness ==
    /\ call.name = "analyze" /\ raised = "none"
    /\ data = SampleSales
    /\ Len(printed) = 4
    /\ printed[1].tag = "starting" /\ printed[2].tag = "analysis_complete"
    /\ printed[3].tag = "completed" /\ printed[4].tag = "took"
    /\ result.kind = "Report" /\ result.val.current_shape = <<3, 2>>

====
